---- MODULE Spec2Model ----
(***************************************************************************)
(* Model of src/server/index.ts: the startup sequence startServer(), the   *)
(* Express router it builds, the /api/health handler, the production       *)
(* catch-all rule, and the two multer upload gates.                        *)
(***************************************************************************)
EXTENDS Integers, Sequences, FiniteSets, TLC

VARIABLES
    uriSet,          \* process.env.MONGODB_URI is set (truthy)
    nodeEnv,         \* process.env.NODE_ENV
    pc,              \* position of startServer()
    mongoConnected,  \* local variable of startServer (line 109)
    routes,          \* the Express router stack of app, in registration order
    thrownAt,        \* the statement whose exception reached the outer catch
    caught,          \* failures caught by an inner try/catch (lines 117, 147, 181)
    seedAttempted,   \* seed steps that were started
    exitCode,        \* argument of process.exit, -1 while the process runs
    req,             \* last request taken from the listener
    response,        \* what the router answered to req
    up,              \* the file currently offered to an upload gate
    upPc,            \* position of multer for that file
    persisted,       \* bytes of that file present in dest 'uploads/'
    decision         \* multer's outcome for that file

startupVars == <<uriSet, nodeEnv, pc, mongoConnected, routes, thrownAt, caught,
                 seedAttempted, exitCode>>
requestVars == <<req, response>>
uploadVars  == <<up, upPc, persisted, decision>>
vars == <<uriSet, nodeEnv, pc, mongoConnected, routes, thrownAt, caught,
          seedAttempted, exitCode, req, response, up, upPc, persisted, decision>>

----------------------------------------------------------------------------
(* Bounds *)

\* longest prefix put in front of an extension when building file names
MaxStemLen == 1

----------------------------------------------------------------------------
(* Environment *)

NodeEnvValues == {"production", "development", "unset"}

NoReq == [method |-> "-", path |-> <<>>]
NoResponse == [kind |-> "-", status |-> "-", mongodb |-> "-"]
NoFile == [via |-> "-", gate |-> "-", originalname |-> <<>>, size |-> 0]
NoDecision == [accepted |-> FALSE, reason |-> "-"]

\* connectToMongoDB() lives in mongodb-connection.js; without a connection
\* string the attempt cannot succeed ("absence triggers degraded mode").
ConnectCanSucceed(uri) == uri

----------------------------------------------------------------------------
(* Router stack before startServer runs: lines 75-106.  The cors, body      *)
(* parser and session middleware always pass the request on and are left   *)
(* out of the stack.                                                       *)

InitialRoutes == <<"uploads", "health">>

Append1(s, e) == s \o <<e>>

Init ==
    /\ uriSet \in BOOLEAN
    /\ nodeEnv \in NodeEnvValues
    /\ pc = "connect"
    /\ mongoConnected = FALSE
    /\ routes = InitialRoutes
    /\ thrownAt = "none"
    /\ caught = {}
    /\ seedAttempted = {}
    /\ exitCode = -1
    /\ req = NoReq
    /\ response = NoResponse
    /\ up = NoFile
    /\ upPc = "idle"
    /\ persisted = 0
    /\ decision = NoDecision

----------------------------------------------------------------------------
(* startServer, lines 108-204 *)

\* lines 111-121: await connectToMongoDB() inside its own try/catch
ConnectToMongoDB ==
    /\ pc = "connect"
    /\ \E ok \in BOOLEAN :
        /\ ok => ConnectCanSucceed(uriSet)
        /\ IF ok
           THEN /\ mongoConnected' = TRUE
                /\ caught' = caught
           ELSE /\ mongoConnected' = FALSE
                /\ caught' = caught \cup {"connect"}
    /\ pc' = "regMongo"
    /\ UNCHANGED <<uriSet, nodeEnv, routes, thrownAt, seedAttempted, exitCode,
                   req, response, up, upPc, persisted, decision>>

\* the exception is swallowed and the sequence goes on
RegisterOrThrow_Swallowed(group, ok, nextPc) ==
    /\ routes' = IF ok THEN Append1(routes, group) ELSE routes
    /\ pc' = nextPc
    /\ thrownAt' = IF ok THEN thrownAt ELSE group

\* A synchronous registration call inside the outer try: it either installs
\* its route group or throws into the catch of line 200.
RegisterOrThrow(group, ok, nextPc) ==
    IF ok
    THEN /\ routes' = Append1(routes, group)
         /\ pc' = nextPc
         /\ thrownAt' = thrownAt
    ELSE /\ routes' = routes
         /\ pc' = "catch"
         /\ thrownAt' = group

\* the database-backed routes registered without looking at mongoConnected
RegisterMongoDBRoutes_Unconditional ==
    /\ pc = "regMongo"
    /\ \E ok \in BOOLEAN : RegisterOrThrow("mongodb", ok, "regEvidence")
    /\ UNCHANGED <<uriSet, nodeEnv, mongoConnected, caught, seedAttempted, exitCode,
                   req, response, up, upPc, persisted, decision>>

\* lines 125-128
RegisterMongoDBRoutes ==
    /\ pc = "regMongo"
    /\ IF mongoConnected
       THEN \E ok \in BOOLEAN : RegisterOrThrow("mongodb", ok, "regEvidence")
       ELSE /\ pc' = "regEvidence"
            /\ UNCHANGED <<routes, thrownAt>>
    /\ UNCHANGED <<uriSet, nodeEnv, mongoConnected, caught, seedAttempted, exitCode,
                   req, response, up, upPc, persisted, decision>>

\* the evidence routes registered inside the if (mongoConnected) block
RegisterEvidenceRoutes_OnlyConnected ==
    /\ pc = "regEvidence"
    /\ IF mongoConnected
       THEN \E ok \in BOOLEAN : RegisterOrThrow("evidence", ok, "regCustodial")
       ELSE /\ pc' = "regCustodial"
            /\ UNCHANGED <<routes, thrownAt>>
    /\ UNCHANGED <<uriSet, nodeEnv, mongoConnected, caught, seedAttempted, exitCode,
                   req, response, up, upPc, persisted, decision>>

\* lines 131-133
RegisterEvidenceRoutes ==
    /\ pc = "regEvidence"
    /\ \E ok \in BOOLEAN : RegisterOrThrow("evidence", ok, "regCustodial")
    /\ UNCHANGED <<uriSet, nodeEnv, mongoConnected, caught, seedAttempted, exitCode,
                   req, response, up, upPc, persisted, decision>>

\* lines 136-138
RegisterCustodialRoutes ==
    /\ pc = "regCustodial"
    /\ \E ok \in BOOLEAN : RegisterOrThrow("custodial", ok, "additional")
    /\ UNCHANGED <<uriSet, nodeEnv, mongoConnected, caught, seedAttempted, exitCode,
                   req, response, up, upPc, persisted, decision>>

\* lines 141-152: optional module in its own try/catch, then the second
\* /uploads static mount.
AdditionalOutcomes == {"registered", "noRegisterFunction", "importFailed", "registerThrew"}

\* the optional module loaded without its own try/catch
RegisterAdditionalRoutes_Uncaught ==
    /\ pc = "additional"
    /\ \E o \in AdditionalOutcomes :
        IF o \in {"importFailed", "registerThrew"}
        THEN /\ pc' = "catch"
             /\ thrownAt' = "additional"
             /\ routes' = routes
        ELSE /\ pc' = "static"
             /\ thrownAt' = thrownAt
             /\ routes' = (IF o = "registered" THEN Append1(routes, "additional") ELSE routes)
                             \o <<"uploads">>
    /\ UNCHANGED <<uriSet, nodeEnv, mongoConnected, caught, seedAttempted, exitCode,
                   req, response, up, upPc, persisted, decision>>

RegisterAdditionalRoutes ==
    /\ pc = "additional"
    /\ \E o \in AdditionalOutcomes :
        /\ routes' = (IF o = "registered" THEN Append1(routes, "additional") ELSE routes)
                        \o <<"uploads">>
        /\ caught' = IF o \in {"importFailed", "registerThrew"}
                     THEN caught \cup {"additional"} ELSE caught
    /\ pc' = "static"
    /\ UNCHANGED <<uriSet, nodeEnv, mongoConnected, thrownAt, seedAttempted, exitCode,
                   req, response, up, upPc, persisted, decision>>

\* the test of NODE_ENV inverted
SelectStaticStrategy_InvertedMode ==
    /\ pc = "static"
    /\ IF nodeEnv # "production"
       THEN /\ routes' = routes \o <<"static", "catchall">>
            /\ pc' = "seed"
            /\ thrownAt' = thrownAt
       ELSE \E ok \in BOOLEAN : RegisterOrThrow("vite", ok, "seed")
    /\ UNCHANGED <<uriSet, nodeEnv, mongoConnected, caught, seedAttempted, exitCode,
                   req, response, up, upPc, persisted, decision>>

\* the catch-all installed in front of express.static
SelectStaticStrategy_CatchallFirst ==
    /\ pc = "static"
    /\ IF nodeEnv = "production"
       THEN /\ routes' = routes \o <<"catchall", "static">>
            /\ pc' = "seed"
            /\ thrownAt' = thrownAt
       ELSE \E ok \in BOOLEAN : RegisterOrThrow("vite", ok, "seed")
    /\ UNCHANGED <<uriSet, nodeEnv, mongoConnected, caught, seedAttempted, exitCode,
                   req, response, up, upPc, persisted, decision>>

\* lines 155-167: production installs express.static and the catch-all;
\* any other mode awaits setupVite(app, server), which is inside the outer
\* try only.
SelectStaticStrategy ==
    /\ pc = "static"
    /\ IF nodeEnv = "production"
       THEN /\ routes' = routes \o <<"static", "catchall">>
            /\ pc' = "seed"
            /\ thrownAt' = thrownAt
       ELSE \E ok \in BOOLEAN : RegisterOrThrow("vite", ok, "seed")
    /\ UNCHANGED <<uriSet, nodeEnv, mongoConnected, caught, seedAttempted, exitCode,
                   req, response, up, upPc, persisted, decision>>

\* a seed failure that is not caught by the inner try/catch
SeedGeofiles_Uncaught ==
    /\ pc = "seed"
    /\ IF mongoConnected
       THEN /\ seedAttempted' = seedAttempted \cup {"geofiles"}
            /\ \E ok \in BOOLEAN :
                IF ok THEN /\ pc' = "seedAdmin"
                           /\ thrownAt' = thrownAt
                      ELSE /\ pc' = "catch"
                           /\ thrownAt' = "seedGeofiles"
       ELSE /\ pc' = "listen"
            /\ UNCHANGED <<seedAttempted, thrownAt>>
    /\ UNCHANGED <<uriSet, nodeEnv, mongoConnected, routes, caught, exitCode,
                   req, response, up, upPc, persisted, decision>>

\* seeding attempted without testing mongoConnected
SeedGeofiles_Unconditional ==
    /\ pc = "seed"
    /\ seedAttempted' = seedAttempted \cup {"geofiles"}
    /\ \E ok \in BOOLEAN :
        IF ok THEN /\ pc' = "seedAdmin"
                   /\ caught' = caught
              ELSE /\ pc' = "listen"
                   /\ caught' = caught \cup {"seedGeofiles"}
    /\ UNCHANGED <<uriSet, nodeEnv, mongoConnected, routes, thrownAt, exitCode,
                   req, response, up, upPc, persisted, decision>>

\* the seeding block placed in front of the static strategy selection
SeedGeofiles_BeforeStatic ==
    /\ pc \in {"static", "seed"}
    /\ IF pc = "static"
       THEN /\ mongoConnected
            /\ "geofiles" \notin seedAttempted
            /\ seedAttempted' = seedAttempted \cup {"geofiles"}
            /\ UNCHANGED <<pc, caught>>
       ELSE /\ pc' = "listen"
            /\ UNCHANGED <<seedAttempted, caught>>
    /\ UNCHANGED <<uriSet, nodeEnv, mongoConnected, routes, thrownAt, exitCode,
                   req, response, up, upPc, persisted, decision>>

\* lines 170-184: one try/catch around both seed steps
SeedGeofiles ==
    /\ pc = "seed"
    /\ IF mongoConnected
       THEN /\ seedAttempted' = seedAttempted \cup {"geofiles"}
            /\ \E ok \in BOOLEAN :
                IF ok THEN /\ pc' = "seedAdmin"
                           /\ caught' = caught
                      ELSE /\ pc' = "listen"
                           /\ caught' = caught \cup {"seedGeofiles"}
       ELSE /\ pc' = "listen"
            /\ UNCHANGED <<seedAttempted, caught>>
    /\ UNCHANGED <<uriSet, nodeEnv, mongoConnected, routes, thrownAt, exitCode,
                   req, response, up, upPc, persisted, decision>>

SeedAdminUser ==
    /\ pc = "seedAdmin"
    /\ \E o \in {"ok", "importFailed", "seedFailed"} :
        /\ seedAttempted' = IF o = "importFailed" THEN seedAttempted
                            ELSE seedAttempted \cup {"admin"}
        /\ caught' = IF o = "ok" THEN caught ELSE caught \cup {"seedAdmin"}
    /\ pc' = "listen"
    /\ UNCHANGED <<uriSet, nodeEnv, mongoConnected, routes, thrownAt, exitCode,
                   req, response, up, upPc, persisted, decision>>

\* lines 186-198
Listen ==
    /\ pc = "listen"
    /\ pc' = "listening"
    /\ UNCHANGED <<uriSet, nodeEnv, mongoConnected, routes, thrownAt, caught,
                   seedAttempted, exitCode, req, response, up, upPc, persisted, decision>>

\* the exit status set without ending the process
ExitOnFailure_StatusOnly ==
    /\ pc = "catch"
    /\ pc' = "listen"
    /\ exitCode' = 1
    /\ UNCHANGED <<uriSet, nodeEnv, mongoConnected, routes, thrownAt, caught,
                   seedAttempted, req, response, up, upPc, persisted, decision>>

\* lines 200-203
ExitOnFailure ==
    /\ pc = "catch"
    /\ pc' = "exited"
    /\ exitCode' = 1
    /\ UNCHANGED <<uriSet, nodeEnv, mongoConnected, routes, thrownAt, caught,
                   seedAttempted, req, response, up, upPc, persisted, decision>>

StartServer ==
    \/ ConnectToMongoDB
    \/ RegisterMongoDBRoutes
    \/ RegisterEvidenceRoutes
    \/ RegisterCustodialRoutes
    \/ RegisterAdditionalRoutes
    \/ SelectStaticStrategy
    \/ SeedGeofiles
    \/ SeedAdminUser
    \/ Listen
    \/ ExitOnFailure

----------------------------------------------------------------------------
(* Request routing.  Paths are sequences of characters. *)

StartsWith(s, prefix) ==
    /\ Len(s) >= Len(prefix)
    /\ SubSeq(s, 1, Len(prefix)) = prefix

ApiPrefix     == <<"/", "a", "p", "i">>
UploadsPrefix == <<"/", "u", "p", "l", "o", "a", "d", "s">>
HealthPath    == ApiPrefix \o <<"/", "h", "e", "a", "l", "t", "h">>

\* The paths served by the route groups are set in mongodb-routes.js,
\* evidence-routes.js, custodial-routes.js and api-routes.js; one
\* representative path stands for each group.
GroupPath(group) ==
    CASE group = "mongodb"    -> ApiPrefix \o <<"/", "m">>
      [] group = "evidence"   -> ApiPrefix \o <<"/", "e">>
      [] group = "custodial"  -> ApiPrefix \o <<"/", "c">>
      [] group = "additional" -> ApiPrefix \o <<"/", "x">>

RouteGroups == {"mongodb", "evidence", "custodial", "additional"}

\* files present under uploads/ and under dist/public
UploadedFilePath == UploadsPrefix \o <<"/", "f">>
BundleAssetPath  == <<"/", "m", ".", "j", "s">>

Methods == {"GET", "POST"}
Paths == { HealthPath, GroupPath("mongodb"), GroupPath("evidence"), GroupPath("custodial"),
           GroupPath("additional"), ApiPrefix \o <<"s">>, <<"/">>, <<"/", "a", "p">>,
           UploadedFilePath, UploadsPrefix \o <<"/", "g">>, BundleAssetPath }

\* lines 98-106
HealthReport(uri) ==
    LET mongoStatus == IF uri THEN "connected" ELSE "disconnected"
    IN  [kind |-> "health", status |-> "OK", mongodb |-> mongoStatus]

Answer(k) == [kind |-> k, status |-> "-", mongodb |-> "-"]

\* setupVite lives in vite.js: the development toolchain answers every
\* request that reaches it.
ViteLayer(method, path) == Answer("vite")

\* What one layer of the stack does with a request: an answer, "next" when
\* it passes the request on, or "none" when it ends without answering and
\* without calling next.
Layer(layer, method, path, uri) ==
    CASE layer = "uploads" ->    \* express.static, lines 95 and 152
            IF method = "GET" /\ path = UploadedFilePath
            THEN Answer("uploadedFile") ELSE Answer("next")
      [] layer = "health" ->     \* line 98
            IF method = "GET" /\ path = HealthPath
            THEN HealthReport(uri) ELSE Answer("next")
      [] layer \in RouteGroups ->
            IF path = GroupPath(layer) THEN Answer(layer) ELSE Answer("next")
      [] layer = "static" ->     \* line 157
            IF method = "GET" /\ path = BundleAssetPath
            THEN Answer("asset") ELSE Answer("next")
      [] layer = "catchall" ->   \* lines 160-164
            IF method = "GET"
            THEN IF ~StartsWith(path, ApiPrefix)
                 THEN Answer("index.html") ELSE Answer("none")
            ELSE Answer("next")
      [] layer = "vite" ->       \* line 166
            ViteLayer(method, path)

\* Express tries the layers in registration order; a request no layer
\* answers reaches the default 404 handler.
RECURSIVE Dispatch(_, _, _, _)
Dispatch(stack, method, path, uri) ==
    IF stack = <<>>
    THEN Answer("404")
    ELSE LET r == Layer(Head(stack), method, path, uri)
         IN  IF r.kind = "next"
             THEN Dispatch(Tail(stack), method, path, uri)
             ELSE r

\* a handler that installs a route group while answering
HandleRequest_RegistersRoutes ==
    /\ pc = "listening"
    /\ \E m \in Methods, p \in Paths :
        /\ req' = [method |-> m, path |-> p]
        /\ response' = Dispatch(routes, m, p, uriSet)
        /\ routes' = IF p = GroupPath("mongodb") /\ ~(\E i \in 1..Len(routes) : routes[i] = "mongodb")
                     THEN <<"mongodb">> \o routes ELSE routes
    /\ UNCHANGED <<uriSet, nodeEnv, pc, mongoConnected, thrownAt, caught,
                   seedAttempted, exitCode, up, upPc, persisted, decision>>

\* server.listen has been called: requests are dispatched through app
HandleRequest ==
    /\ pc = "listening"
    /\ \E m \in Methods, p \in Paths :
        /\ req' = [method |-> m, path |-> p]
        /\ response' = Dispatch(routes, m, p, uriSet)
    /\ UNCHANGED <<uriSet, nodeEnv, pc, mongoConnected, routes, thrownAt, caught,
                   seedAttempted, exitCode, up, upPc, persisted, decision>>

Next ==
    \/ StartServer
    \/ HandleRequest

Spec == Init /\ [][Next]_vars

\* every step of startServer is eventually taken: awaited operations settle
FairSpec == Spec /\ WF_vars(StartServer)

----------------------------------------------------------------------------
(* Upload gates: the two multer instances of lines 41-72.  File names are  *)
(* sequences of characters.                                                *)

MaxOf(S) == CHOOSE x \in S : \A y \in S : y <= x

UpperCase == [c \in {"a","c","e","g","j","k","l","m","n","o","p","s","v","x","z","h"} |->
    CASE c = "a" -> "A" [] c = "c" -> "C" [] c = "e" -> "E" [] c = "g" -> "G"
      [] c = "j" -> "J" [] c = "k" -> "K" [] c = "l" -> "L" [] c = "m" -> "M"
      [] c = "n" -> "N" [] c = "o" -> "O" [] c = "p" -> "P" [] c = "s" -> "S"
      [] c = "v" -> "V" [] c = "x" -> "X" [] c = "z" -> "Z" [] c = "h" -> "H"]

\* String.prototype.toLowerCase on the characters used here
LowerChar(c) ==
    IF \E l \in DOMAIN UpperCase : UpperCase[l] = c
    THEN CHOOSE l \in DOMAIN UpperCase : UpperCase[l] = c
    ELSE c

ToLowerCase(s) == [i \in 1..Len(s) |-> LowerChar(s[i])]

\* path.extname: trailing slashes are skipped, the base name starts after
\* the last remaining slash, the extension runs from the last dot of the
\* base name to its end; it is empty when there is no dot, when the dot is
\* the first character of the base name, or when the base name is "..".
ExtName(p) ==
    LET end       == MaxOf({0} \cup {i \in 1..Len(p) : p[i] # "/"})
        startPart == MaxOf({0} \cup {i \in 1..end : p[i] = "/"}) + 1
        startDot  == MaxOf({0} \cup {i \in startPart..end : p[i] = "."})
    IN  IF \/ startDot = 0
           \/ end = 0
           \/ startDot = startPart
           \/ (p[startPart] = "." /\ startDot = end /\ startDot = startPart + 1)
        THEN <<>>
        ELSE SubSeq(p, startDot, end)

\* line 47
allowedTypes ==
    { <<".", "s", "h", "p">>, <<".", "k", "m", "l">>,
      <<".", "g", "e", "o", "j", "s", "o", "n">>, <<".", "c", "s", "v">>,
      <<".", "g", "p", "x">>, <<".", "k", "m", "z">>, <<".", "g", "m", "l">> }

\* line 64
allowedImageTypes ==
    { <<".", "j", "p", "g">>, <<".", "j", "p", "e", "g">>, <<".", "p", "n", "g">> }

\* the extension compared without toLowerCase
uploadFileFilter_CaseSensitive(originalname) ==
    ExtName(originalname) \in allowedTypes

\* lines 46-54
uploadFileFilter(originalname) ==
    LET ext == ToLowerCase(ExtName(originalname))
    IN  ext \in allowedTypes

\* the photo filter testing the geospatial list
uploadCustodialFileFilter_GeoList(originalname) ==
    ToLowerCase(ExtName(originalname)) \in allowedTypes

\* lines 63-71
uploadCustodialFileFilter(originalname) ==
    LET ext == ToLowerCase(ExtName(originalname))
    IN  ext \in allowedImageTypes

\* line 44
uploadFileSize == 50 * 1024 * 1024

\* the photo gate given the geofile ceiling
uploadCustodialFileSize_AsGeofiles == 50 * 1024 * 1024

\* line 61
uploadCustodialFileSize == 5 * 1024 * 1024

Gates == {"upload", "uploadCustodial"}

FileFilterOf(gate, originalname) ==
    IF gate = "upload" THEN uploadFileFilter(originalname)
                       ELSE uploadCustodialFileFilter(originalname)

FileSizeOf(gate) ==
    IF gate = "upload" THEN uploadFileSize ELSE uploadCustodialFileSize

\* the photo gate passed to registerEvidenceRoutes
GatesHanded_PhotoToEvidence(group) ==
    CASE group = "mongodb"    -> {"upload", "uploadCustodial"}
      [] group = "evidence"   -> {"uploadCustodial"}
      [] group = "custodial"  -> {}
      [] group = "additional" -> {}

\* The gates each route group receives: lines 126, 132, 137, 144
GatesHanded(group) ==
    CASE group = "mongodb"    -> {"upload", "uploadCustodial"}
      [] group = "evidence"   -> {"upload"}
      [] group = "custodial"  -> {}
      [] group = "additional" -> {}

RegisteredGroups == { routes[i] : i \in {j \in 1..Len(routes) : routes[j] \in RouteGroups} }

InstalledGates == UNION { GatesHanded(group) : group \in RegisteredGroups }

(* File names offered: a stem, then an extension in one of three letter cases *)
StemChars == {"a", ".", "/"}
SeqsUpTo(S, n) == UNION { [1..k -> S] : k \in 0..n }
Stems == SeqsUpTo(StemChars, MaxStemLen)

OtherExtensions ==
    { <<".", "e", "x", "e">>, <<".", "c", "s">>, <<".", "c", "s", "v", "x">>,
      <<".", "c", "s", "v", ".">>, <<"c", "s", "v">>, <<".">>, <<>> }

ToUpperCase(s) == [i \in 1..Len(s) |-> IF s[i] \in DOMAIN UpperCase THEN UpperCase[s[i]] ELSE s[i]]
Capitalise(s) == [i \in 1..Len(s) |-> IF i = 2 THEN ToUpperCase(s)[i] ELSE s[i]]

Extensions == allowedTypes \cup allowedImageTypes \cup OtherExtensions
FileNames ==
    { st \o e : st \in Stems,
                e \in Extensions \cup {ToUpperCase(x) : x \in Extensions}
                                 \cup {Capitalise(x) : x \in Extensions} }

FileSizes == { 0, 1, uploadCustodialFileSize - 1, uploadCustodialFileSize,
               uploadCustodialFileSize + 1, uploadFileSize, uploadFileSize + 1 }

\* a route guarded by an installed gate receives a multipart file
OfferFile ==
    /\ pc = "listening"
    /\ upPc = "idle"
    /\ \E group \in RegisteredGroups :
        \E g \in GatesHanded(group), n \in FileNames, sz \in FileSizes :
            up' = [via |-> group, gate |-> g, originalname |-> n, size |-> sz]
    /\ upPc' = "fileFilter"
    /\ persisted' = 0
    /\ decision' = NoDecision
    /\ UNCHANGED <<uriSet, nodeEnv, pc, mongoConnected, routes, thrownAt, caught,
                   seedAttempted, exitCode, req, response>>

\* multer calls fileFilter when the part's headers arrive, before reading
\* the file's bytes
FileFilter ==
    /\ upPc = "fileFilter"
    /\ IF FileFilterOf(up.gate, up.originalname)
       THEN /\ upPc' = "store"
            /\ decision' = decision
       ELSE /\ upPc' = "done"
            /\ decision' = [accepted |-> FALSE, reason |-> "InvalidFileType"]
    /\ UNCHANGED <<uriSet, nodeEnv, pc, mongoConnected, routes, thrownAt, caught,
                   seedAttempted, exitCode, req, response, up, persisted>>

\* disk storage streams the file into dest until limits.fileSize is passed
StoreFile ==
    /\ upPc = "store"
    /\ IF up.size > FileSizeOf(up.gate)
       THEN /\ persisted' = FileSizeOf(up.gate)
            /\ upPc' = "limit"
            /\ decision' = decision
       ELSE /\ persisted' = up.size
            /\ upPc' = "done"
            /\ decision' = [accepted |-> TRUE, reason |-> "-"]
    /\ UNCHANGED <<uriSet, nodeEnv, pc, mongoConnected, routes, thrownAt, caught,
                   seedAttempted, exitCode, req, response, up>>

\* on LIMIT_FILE_SIZE multer removes the partial file and reports the error
RejectTooLarge ==
    /\ upPc = "limit"
    /\ persisted' = 0
    /\ upPc' = "done"
    /\ decision' = [accepted |-> FALSE, reason |-> "LIMIT_FILE_SIZE"]
    /\ UNCHANGED <<uriSet, nodeEnv, pc, mongoConnected, routes, thrownAt, caught,
                   seedAttempted, exitCode, req, response, up>>

\* the request that carried the file completes; the decision is discarded
CompleteUpload ==
    /\ upPc = "done"
    /\ up' = NoFile
    /\ upPc' = "idle"
    /\ persisted' = 0
    /\ decision' = NoDecision
    /\ UNCHANGED <<uriSet, nodeEnv, pc, mongoConnected, routes, thrownAt, caught,
                   seedAttempted, exitCode, req, response>>

Upload ==
    \/ OfferFile
    \/ FileFilter
    \/ StoreFile
    \/ RejectTooLarge
    \/ CompleteUpload

UploadNext ==
    \/ StartServer
    \/ Upload

UploadSpec == Init /\ [][UploadNext]_vars

----------------------------------------------------------------------------
(* Properties *)

InStack(layer) == \E i \in 1..Len(routes) : routes[i] = layer

RequiredGroups == {"mongodb", "evidence", "custodial"}
ConnectionFailed == "connect" \in caught

\* C1: in a run whose connection attempt failed and in which no required
\* route group registration threw, the sequence is never diverted to
\* process exit, so it goes on to open the listener.
C1_ConnectionFailureStillListens ==
    (ConnectionFailed /\ thrownAt \notin RequiredGroups) => pc \notin {"catch", "exited"}

\* C2: whenever the database is not connected the health report says
\* status OK and database "disconnected", and it says "connected" only
\* when the connection attempt succeeded.
C2_HealthReflectsConnection ==
    response.kind = "health" =>
        /\ response.status = "OK"
        /\ (~mongoConnected => response.mongodb = "disconnected")
        /\ (response.mongodb = "connected" => mongoConnected)

\* C3: once a required route group registration has thrown, the listener is
\* not opened, no static strategy is installed and no seed step is started
\* in that run, and the process ends with exit status 1.
C3_RequiredRegistrationFailureIsFatal ==
    /\ [](thrownAt \in RequiredGroups =>
            /\ pc \in {"catch", "exited"}
            /\ ~InStack("static") /\ ~InStack("catchall") /\ ~InStack("vite")
            /\ seedAttempted = {}
            /\ exitCode \in {-1, 1})
    /\ (thrownAt \in RequiredGroups) ~> (pc = "exited" /\ exitCode = 1)

C3_Witness ==
    thrownAt \in RequiredGroups /\ pc = "exited" /\ exitCode = 1

\* C4: the process is only ever terminated during startup by a failure
\* while registering a required route group; failures of every other phase
\* are caught where they happen.
C4_OnlyRequiredRegistrationTerminates ==
    pc \in {"catch", "exited"} => thrownAt \in RequiredGroups

\* C5: in every run that reaches the listen phase the evidence and
\* custodial route groups are registered, and the database-backed group is
\* registered whenever the connection attempt succeeded.
C5_RouteGroupsAtListen ==
    pc \in {"listen", "listening"} =>
        /\ InStack("evidence")
        /\ InStack("custodial")
        /\ (mongoConnected => InStack("mongodb"))

C5_Witness ==
    pc = "listening" /\ mongoConnected /\ InStack("mongodb") /\ InStack("evidence")

\* C6: in every reachable state, if the database is not connected then the
\* database-backed route group is not registered.
C6_NoDatabaseRoutesWhenDisconnected ==
    ~mongoConnected => ~InStack("mongodb")

C6_Witness ==
    pc = "listening" /\ ConnectionFailed /\ ~mongoConnected /\ InStack("custodial")

\* C10: while listening without a database, every request to a
\* database-backed route has received an answer once the router is done
\* with it.
C10_DegradedDatabaseRouteAnswered ==
    (pc = "listening" /\ ~mongoConnected /\ req.path = GroupPath("mongodb")) =>
        response.kind \notin {"none", "-"}

----------------------------------------------------------------------------
(* Properties of the upload gates *)

GeospatialExtensions ==
    { <<".", "s", "h", "p">>, <<".", "k", "m", "l">>,
      <<".", "g", "e", "o", "j", "s", "o", "n">>, <<".", "c", "s", "v">>,
      <<".", "g", "p", "x">>, <<".", "k", "m", "z">>, <<".", "g", "m", "l">> }

PhotoExtensions ==
    { <<".", "j", "p", "g">>, <<".", "j", "p", "e", "g">>, <<".", "p", "n", "g">> }

FiveMiB == 5 * 1024 * 1024

LowerExt == ToLowerCase(ExtName(up.originalname))
FilterRan == upPc \in {"store", "limit", "done"}
RejectedAs(reason) == upPc = "done" /\ decision = [accepted |-> FALSE, reason |-> reason]

\* C7: the geospatial gate rejects every file whose lower-cased extension
\* is outside the geospatial set as an invalid file type, whatever its
\* size, and never rejects for its type a file whose extension is in the
\* set in any letter case.
C7_GeospatialExtensionGate ==
    (up.gate = "upload" /\ FilterRan) =>
        /\ (LowerExt \notin GeospatialExtensions => RejectedAs("InvalidFileType"))
        /\ (LowerExt \in GeospatialExtensions =>
                /\ decision.reason # "InvalidFileType"
                /\ (upPc = "done" /\ up.size <= 50 * 1024 * 1024 => decision.accepted))

C7_Witness ==
    /\ up.gate = "upload"
    /\ up.size > 50 * 1024 * 1024
    /\ LowerExt \notin GeospatialExtensions
    /\ RejectedAs("InvalidFileType")

\* C8 as stated: every file over 5 MiB offered to the photo gate is
\* rejected as too large, and a file of at most 5 MiB with a valid
\* extension is not rejected for size.
C8_OversizePhotoRejectedAsTooLarge ==
    (up.gate = "uploadCustodial" /\ upPc = "done") =>
        /\ (up.size > FiveMiB => decision = [accepted |-> FALSE, reason |-> "LIMIT_FILE_SIZE"])
        /\ (up.size <= FiveMiB /\ LowerExt \in PhotoExtensions => decision.accepted)

\* C8 amended: every file over 5 MiB offered to the photo gate is rejected,
\* as too large when its extension is .jpg, .jpeg or .png and as an invalid
\* file type otherwise; a file of at most 5 MiB with a valid extension is
\* not rejected for size.
C8_OversizePhotoRejected ==
    (up.gate = "uploadCustodial" /\ upPc = "done") =>
        /\ (up.size > FiveMiB /\ LowerExt \in PhotoExtensions =>
                decision = [accepted |-> FALSE, reason |-> "LIMIT_FILE_SIZE"])
        /\ (up.size > FiveMiB /\ LowerExt \notin PhotoExtensions =>
                decision = [accepted |-> FALSE, reason |-> "InvalidFileType"])
        /\ (up.size <= FiveMiB /\ LowerExt \in PhotoExtensions => decision.accepted)

C8_Witness ==
    /\ up.gate = "uploadCustodial"
    /\ up.size > FiveMiB
    /\ LowerExt \in PhotoExtensions
    /\ RejectedAs("LIMIT_FILE_SIZE")

\* C9: the photo gate rejects every file whose lower-cased extension is not
\* .jpg, .jpeg or .png as an invalid file type, and no byte of such a file
\* is ever written to the destination directory.
C9_PhotoGateRejectsBeforePersisting ==
    (up.gate = "uploadCustodial" /\ LowerExt \notin PhotoExtensions) =>
        /\ persisted = 0
        /\ upPc \notin {"store", "limit"}
        /\ (upPc = "done" => decision = [accepted |-> FALSE, reason |-> "InvalidFileType"])

C9_Witness ==
    /\ up.gate = "uploadCustodial"
    /\ up.originalname = <<"a", ".", "c", "s", "v">>
    /\ RejectedAs("InvalidFileType")
    /\ persisted = 0

----------------------------------------------------------------------------
(* Properties of seeding and of the order of the phases *)

SeedingOrLater == {"seed", "seedAdmin", "listen", "listening"}

\* C11: when the database is connected and the geofile seed step has
\* failed, the admin-user seed step has still been attempted by the time
\* seeding is over.
C11_SeedStepsIndependent ==
    (pc \in {"listen", "listening"} /\ mongoConnected /\ "seedGeofiles" \in caught) =>
        ("admin" \in seedAttempted \/ "seedAdmin" \in caught)

\* C12: a run that has reached the seeding phase is never diverted to
\* process exit, whatever the seed steps' outcomes, and goes on to open
\* the listener.
C12_SeedFailureNeverAbortsStartup ==
    /\ [](pc \in SeedingOrLater => (thrownAt = "none" /\ exitCode = -1))
    /\ [][(pc \in SeedingOrLater) => (pc' \in SeedingOrLater)]_vars
    /\ (pc = "seed") ~> (pc = "listening")

C12_Witness ==
    pc = "listening" /\ "seedGeofiles" \in caught /\ exitCode = -1

----------------------------------------------------------------------------
(* Properties of the production catch-all *)

ProductionListening == pc = "listening" /\ nodeEnv = "production"

\* no rule installed before the catch-all answers the request
NoEarlierRuleAnswers ==
    \A i \in 1..(Len(routes) - 1) :
        Layer(routes[i], req.method, req.path, uriSet).kind = "next"

CatchallInstalledLast ==
    /\ Len(routes) > 0
    /\ routes[Len(routes)] = "catchall"
    /\ \A i \in 1..(Len(routes) - 1) : routes[i] # "catchall"

ApiRoutesNotShadowed ==
    /\ \A g \in RouteGroups : (InStack(g) /\ req.path = GroupPath(g)) => response.kind = g
    /\ (req.method = "GET" /\ req.path = HealthPath) => response.kind = "health"

----------------------------------------------------------------------------
(* Order of the phases *)

\* position of each statement of startServer in the order of the phases:
\* connection, route registration, static strategy, seeding, listen
PhaseRank(p) ==
    CASE p = "connect"      -> 1
      [] p = "regMongo"     -> 2
      [] p = "regEvidence"  -> 3
      [] p = "regCustodial" -> 4
      [] p = "additional"   -> 5
      [] p = "static"       -> 6
      [] p = "seed"         -> 7
      [] p = "seedAdmin"    -> 8
      [] p = "listen"       -> 9
      [] p = "listening"    -> 10
      [] p = "catch"        -> 11
      [] p = "exited"       -> 12

StrategyInstalled == InStack("catchall") \/ InStack("vite")

\* C14: the phases run in one total order, connection, route registration,
\* static strategy, seeding, listen: no phase starts before the previous
\* one has finished, nothing of a later phase has happened while an
\* earlier one is running, and the listener is opened only after all of
\* them have finished or been skipped.
C14_PhasesInTotalOrder ==
    /\ [][PhaseRank(pc) <= PhaseRank(pc')]_vars
    /\ [][(pc' = "listening" /\ pc # "listening") => pc = "listen"]_vars
    /\ []((mongoConnected \/ ConnectionFailed) <=> PhaseRank(pc) > 1)
    /\ [](Len(routes) > Len(InitialRoutes) => PhaseRank(pc) > 2)
    /\ [](StrategyInstalled => (PhaseRank(pc) > 6 /\ InStack("evidence") /\ InStack("custodial")))
    /\ [](seedAttempted # {} => (PhaseRank(pc) > 7 /\ StrategyInstalled))
    /\ [](pc \in {"listen", "listening"} =>
            /\ StrategyInstalled
            /\ (mongoConnected => "geofiles" \in seedAttempted))

C14_Witness ==
    /\ pc = "listening"
    /\ seedAttempted = {"geofiles", "admin"}
    /\ InStack("mongodb") /\ InStack("additional") /\ InStack("vite")

----------------------------------------------------------------------------
(* Optional routes, conditional seeding, static strategy *)

\* C15: a failure to load or register the optional additional route group
\* never reaches the outer catch: the group is absent, and the step that
\* failed leaves the sequence at the static strategy selection with the
\* same router stack as when the module does not exist.
C15_OptionalRoutesFailureNotFatal ==
    /\ [](thrownAt # "additional")
    /\ []("additional" \in caught => ~InStack("additional"))
    /\ [][(pc = "additional" /\ pc' # "additional" /\ "additional" \in caught') =>
            /\ pc' = "static"
            /\ routes' = routes \o <<"uploads">>
            /\ exitCode' = -1
            /\ thrownAt' = "none"]_vars

C15_Witness ==
    pc = "listening" /\ "additional" \in caught /\ ~InStack("additional")

\* C16: no seed step is ever attempted in a run whose connection attempt
\* failed; seed steps are attempted, and fail, only while mongoConnected
\* is true.
C16_SeedingOnlyWhenConnected ==
    /\ (ConnectionFailed => seedAttempted = {})
    /\ (seedAttempted # {} => mongoConnected)
    /\ (caught \cap {"seedGeofiles", "seedAdmin"} # {} => mongoConnected)

C16_Witness ==
    pc = "listening" /\ ConnectionFailed /\ seedAttempted = {}

StrategyOf(stack) == SelectSeq(stack, LAMBDA l : l \in {"static", "catchall", "vite"})

\* C17: the static-serving strategy is selected once, after route
\* registration and before seeding and listen: the prebuilt bundle in
\* production, the development toolchain for every other mode; both are
\* never installed together and the installed one never changes.
C17_StaticStrategySelectedOnce ==
    /\ [](StrategyOf(routes) \in {<<>>, <<"static", "catchall">>, <<"vite">>})
    /\ [](InStack("catchall") => nodeEnv = "production")
    /\ [](InStack("vite") => nodeEnv # "production")
    /\ [](StrategyOf(routes) # <<>> =>
            /\ InStack("evidence") /\ InStack("custodial")
            /\ pc \in SeedingOrLater)
    /\ [](pc \in SeedingOrLater => StrategyOf(routes) # <<>>)
    /\ [](PhaseRank(pc) <= 6 => seedAttempted = {})
    /\ [][StrategyOf(routes) # <<>> => StrategyOf(routes') = StrategyOf(routes)]_vars
    /\ [][nodeEnv' = nodeEnv]_vars

C17_Witness ==
    pc = "listening" /\ nodeEnv = "unset" /\ StrategyOf(routes) = <<"vite">>

----------------------------------------------------------------------------
(* After the listener opens; terminal outcomes *)

\* C18: once the listen phase has been reached, no step changes
\* mongoConnected or the set of registered route groups.
C18_ServiceStateFrozenAfterListen ==
    [][(pc \in {"listen", "listening"}) =>
        (mongoConnected' = mongoConnected /\ routes' = routes
            /\ pc' \in {"listen", "listening"})]_vars

C18_Witness ==
    pc = "listening" /\ response.kind = "health" /\ req.path = HealthPath

\* C19: when every awaited operation settles, each run ends with the
\* listener opened or with process exit status 1, never both: a run that
\* exits has not opened the listener, and no exit is requested once the
\* listener is open.
C19_ExactlyOneTerminalOutcome ==
    /\ <>(pc \in {"listening", "exited"})
    /\ [](pc \in {"listen", "listening"} => exitCode = -1)
    /\ [](pc = "exited" <=> exitCode = 1)
    /\ [](exitCode \in {-1, 1})
    /\ [][(pc \in {"listening", "exited"}) => (pc' = pc /\ exitCode' = exitCode)]_vars

C19_Witness ==
    pc = "exited" /\ exitCode = 1 /\ thrownAt = "custodial" /\ mongoConnected

----------------------------------------------------------------------------
(* Which route group is guarded by which gate *)

FiftyMiB == 50 * 1024 * 1024

\* C20: only the database-backed route group is guarded by the photo gate,
\* the evidence group is guarded by the geospatial gate and the custodial
\* group by none; so while the database is not connected no registered
\* route is guarded by the photo policy, and an upload through an evidence
\* route is always judged by the geospatial extension set and the 50 MiB
\* ceiling.
C20_GateWiring ==
    /\ (~mongoConnected => "uploadCustodial" \notin InstalledGates)
    /\ (up.gate = "uploadCustodial" => (up.via = "mongodb" /\ mongoConnected))
    /\ up.via # "custodial"
    /\ (up.via = "evidence" =>
            /\ up.gate = "upload"
            /\ (upPc = "done" =>
                    (decision.accepted <=>
                        (LowerExt \in GeospatialExtensions /\ up.size <= FiftyMiB))))

C20_Witness ==
    /\ ~mongoConnected
    /\ up.via = "evidence"
    /\ up.size > FiveMiB
    /\ upPc = "done"
    /\ decision.accepted
====
